---- MODULE Spec2Model ----
(***************************************************************************)
(* A model of the 0-shell command interpreter: the tokenizer custom_split  *)
(* (src/src/lib.rs) and the interactive loop of main (src/src/main.rs).    *)
(*                                                                         *)
(* A string is a sequence of characters; a character is a one-character    *)
(* TLA+ string.  A Command is a record [name, args].                       *)
(***************************************************************************)
EXTENDS Integers, Sequences, FiniteSets, TLC

(***************************************************************************)
(* Bounds of the model.                                                    *)
(***************************************************************************)
\* longest input string given to custom_split in SpecSplit
MaxInputLen == 4

(***************************************************************************)
(* Characters.                                                             *)
(***************************************************************************)
LF == "\n"
BS == "\\"
DQ == "\""
SQ == "'"
SP == " "
\* the backtick (the lexer takes no backtick inside a string)
BACKTICK == "backtick"
DOLLAR == "$"
TAB == "\t"

\* char::is_whitespace, restricted to the characters of the model
is_whitespace(ch) ==
    ch \in {SP, TAB, LF}

\* the characters the inputs of SpecSplit are made of
SplitAlphabet == {"a", SP, LF, BS, DQ, SQ}

(***************************************************************************)
(* Helpers on sequences.                                                   *)
(***************************************************************************)
Last(s) == s[Len(s)]

\* the strings over alphabet A of length exactly n
RECURSIVE StringsOfLen(_, _)
StringsOfLen(A, n) ==
    IF n = 0 THEN {<<>>}
    ELSE {Append(s, c) : s \in StringsOfLen(A, n - 1), c \in A}

\* the strings over alphabet A of length at most n
StringsUpTo(A, n) ==
    UNION {StringsOfLen(A, k) : k \in 0..n}

(***************************************************************************)
(* str::split("\n"): the segments between line feeds; always at least one  *)
(* segment, the last one empty when the string ends in a line feed.        *)
(***************************************************************************)
RECURSIVE split_lines_from(_, _, _, _)
split_lines_from(s, j, cur, acc) ==
    IF j > Len(s) THEN Append(acc, cur)
    ELSE IF s[j] = LF THEN split_lines_from(s, j + 1, <<>>, Append(acc, cur))
    ELSE split_lines_from(s, j + 1, Append(cur, s[j]), acc)

split_lines(s) ==
    split_lines_from(s, 1, <<>>, <<>>)

(***************************************************************************)
(* str::split_whitespace: the maximal runs of non-whitespace characters.   *)
(***************************************************************************)
RECURSIVE split_whitespace_from(_, _, _, _)
split_whitespace_from(s, j, cur, acc) ==
    IF j > Len(s) THEN (IF cur = <<>> THEN acc ELSE Append(acc, cur))
    ELSE IF is_whitespace(s[j])
         THEN split_whitespace_from(s, j + 1, <<>>,
                                    IF cur = <<>> THEN acc ELSE Append(acc, cur))
    ELSE split_whitespace_from(s, j + 1, Append(cur, s[j]), acc)

split_whitespace(s) ==
    split_whitespace_from(s, 1, <<>>, <<>>)

(***************************************************************************)
(* Command and its two ways of taking a token  (lib.rs 23-58).             *)
(***************************************************************************)
EmptyCommand == [name |-> <<>>, args |-> <<>>]

\* a variant of add_string: an empty word is a token like any other
add_string_keeps_empty(command, word) ==
    IF command.name = <<>> THEN [command EXCEPT !.name = word]
    ELSE [command EXCEPT !.args = Append(@, word)]

add_string(command, word) ==
    IF word = <<>> THEN command
    ELSE IF command.name = <<>> THEN [command EXCEPT !.name = word]
    ELSE [command EXCEPT !.args = Append(@, word)]

\* a variant of add_string_whatever: an empty word goes to args when the
\* name is still empty
add_string_whatever_args(command, word) ==
    IF command.name = <<>> /\ word # <<>> THEN [command EXCEPT !.name = word]
    ELSE [command EXCEPT !.args = Append(@, word)]

add_string_whatever(command, word) ==
    IF command.name = <<>> THEN [command EXCEPT !.name = word]
    ELSE [command EXCEPT !.args = Append(@, word)]

(***************************************************************************)
(* custom_split (lib.rs 76-180).  The scanner's locals are a record        *)
(* [command, word, state, open_backslash].                                 *)
(***************************************************************************)
ScanInit ==
    [command |-> EmptyCommand, word |-> <<>>, state |-> "Normal",
     open_backslash |-> FALSE]

\* a variant of line_start: a line break inside a quote adds nothing to the
\* word
line_start_no_newline(s, i, n) ==
    [s EXCEPT !.open_backslash = IF i # n THEN FALSE ELSE @]

\* the top of the loop over the lines (lib.rs 94-99); i counts from 1 and n
\* is the number of segments
line_start(s, i, n) ==
    LET w == IF s.state # "Normal" /\ ~s.open_backslash
             THEN Append(s.word, LF) ELSE s.word
        ob == IF s.open_backslash /\ i # n THEN FALSE ELSE s.open_backslash
    IN  [s EXCEPT !.word = w, !.open_backslash = ob]

\* a variant of close_quote: the closing quote always ends the word
close_quote_ends_word(s, has_next, ch2) ==
    [s |-> [s EXCEPT !.state = "Normal",
                     !.command = add_string_whatever(s.command, s.word),
                     !.word = <<>>],
     used |-> IF has_next /\ is_whitespace(ch2) THEN 2 ELSE 1]

\* a closing quote (lib.rs 132-139 and 158-165): back to Normal; when the
\* next character of the line is whitespace the word is added as it is and
\* that character is consumed.  Returns the scanner and how many characters
\* were consumed.
close_quote(s, has_next, ch2) ==
    IF has_next /\ is_whitespace(ch2)
    THEN [s |-> [s EXCEPT !.state = "Normal",
                          !.command = add_string_whatever(s.command, s.word),
                          !.word = <<>>],
          used |-> 2]
    ELSE [s |-> [s EXCEPT !.state = "Normal"], used |-> 1]

\* a variant of scan_normal: a whitespace character ends the word whether
\* or not a backslash came before it
scan_normal_escape_splits(s, ch) ==
    IF ch = BS /\ ~s.open_backslash THEN [s EXCEPT !.open_backslash = TRUE]
    ELSE IF is_whitespace(ch)
         THEN [s EXCEPT !.command = add_string(s.command, s.word),
                        !.word = <<>>, !.open_backslash = FALSE]
    ELSE IF ch = DQ /\ ~s.open_backslash THEN [s EXCEPT !.state = "DoubleQuote"]
    ELSE IF ch = SQ /\ ~s.open_backslash THEN [s EXCEPT !.state = "SingleQuote"]
    ELSE [s EXCEPT !.word = Append(@, ch), !.open_backslash = FALSE]

\* State::Normal (lib.rs 103-129)
scan_normal(s, ch) ==
    IF ch = BS /\ ~s.open_backslash THEN [s EXCEPT !.open_backslash = TRUE]
    ELSE IF is_whitespace(ch) /\ ~s.open_backslash
         THEN [s EXCEPT !.command = add_string(s.command, s.word),
                        !.word = <<>>]
    ELSE IF ch = DQ /\ ~s.open_backslash THEN [s EXCEPT !.state = "DoubleQuote"]
    ELSE IF ch = SQ /\ ~s.open_backslash THEN [s EXCEPT !.state = "SingleQuote"]
    ELSE [s EXCEPT !.word = Append(@, ch), !.open_backslash = FALSE]

\* a variant of scan_double_quote: an unescaped whitespace character ends the
\* word as it does in State::Normal
scan_double_quote_split(s, ch, has_next, ch2) ==
    IF ch = DQ /\ ~s.open_backslash THEN close_quote(s, has_next, ch2)
    ELSE IF ch = BS /\ ~s.open_backslash
         THEN [s |-> [s EXCEPT !.open_backslash = TRUE], used |-> 1]
    ELSE IF s.open_backslash
         THEN [s |-> [s EXCEPT !.word = IF ch \in {DQ, BS, BACKTICK, DOLLAR}
                                        THEN Append(@, ch)
                                        ELSE Append(Append(@, BS), ch),
                               !.open_backslash = FALSE],
               used |-> 1]
    ELSE IF is_whitespace(ch)
         THEN [s |-> [s EXCEPT !.command = add_string(s.command, s.word),
                               !.word = <<>>],
               used |-> 1]
    ELSE [s |-> [s EXCEPT !.word = Append(@, ch)], used |-> 1]

\* a variant of scan_double_quote: the backslash is dropped before every
\* character, as in State::Normal
scan_double_quote_drop(s, ch, has_next, ch2) ==
    IF ch = DQ /\ ~s.open_backslash THEN close_quote(s, has_next, ch2)
    ELSE IF ch = BS /\ ~s.open_backslash
         THEN [s |-> [s EXCEPT !.open_backslash = TRUE], used |-> 1]
    ELSE [s |-> [s EXCEPT !.word = Append(@, ch), !.open_backslash = FALSE],
          used |-> 1]

\* State::DoubleQuote (lib.rs 130-155)
scan_double_quote(s, ch, has_next, ch2) ==
    IF ch = DQ /\ ~s.open_backslash THEN close_quote(s, has_next, ch2)
    ELSE IF ch = BS /\ ~s.open_backslash
         THEN [s |-> [s EXCEPT !.open_backslash = TRUE], used |-> 1]
    ELSE IF s.open_backslash
         THEN [s |-> [s EXCEPT !.word = IF ch \in {DQ, BS, BACKTICK, DOLLAR}
                                        THEN Append(@, ch)
                                        ELSE Append(Append(@, BS), ch),
                               !.open_backslash = FALSE],
               used |-> 1]
    ELSE [s |-> [s EXCEPT !.word = Append(@, ch)], used |-> 1]

\* a variant of scan_single_quote: a backslash escapes the character after
\* it
scan_single_quote_escapes(s, ch, has_next, ch2) ==
    IF s.open_backslash
    THEN [s |-> [s EXCEPT !.word = Append(@, ch), !.open_backslash = FALSE],
          used |-> 1]
    ELSE IF ch = BS THEN [s |-> [s EXCEPT !.open_backslash = TRUE], used |-> 1]
    ELSE IF ch = SQ THEN close_quote(s, has_next, ch2)
    ELSE [s |-> [s EXCEPT !.word = Append(@, ch)], used |-> 1]

\* State::SingleQuote (lib.rs 156-169)
scan_single_quote(s, ch, has_next, ch2) ==
    IF ch = SQ THEN close_quote(s, has_next, ch2)
    ELSE [s |-> [s EXCEPT !.word = Append(@, ch)], used |-> 1]

\* one turn of the loop over the characters of a line (lib.rs 101-171)
scan_char(s, line, j) ==
    LET ch == line[j]
        has_next == j < Len(line)
        ch2 == IF has_next THEN line[j + 1] ELSE ch
    IN  CASE s.state = "Normal" -> [s |-> scan_normal(s, ch), used |-> 1]
          [] s.state = "DoubleQuote" -> scan_double_quote(s, ch, has_next, ch2)
          [] s.state = "SingleQuote" -> scan_single_quote(s, ch, has_next, ch2)

RECURSIVE scan_line(_, _, _)
scan_line(s, line, j) ==
    IF j > Len(line) THEN s
    ELSE LET r == scan_char(s, line, j)
         IN  scan_line(r.s, line, j + r.used)

\* the loop over the lines (lib.rs 93-172)
RECURSIVE scan_lines(_, _, _)
scan_lines(s, chs, i) ==
    IF i > Len(chs) THEN s
    ELSE scan_lines(scan_line(line_start(s, i, Len(chs)), chs[i], 1), chs, i + 1)

\* the scanner after the whole input
scan(input) ==
    scan_lines(ScanInit, split_lines(input), 1)

\* the end of the scan (lib.rs 174-179)
scan_result(s) ==
    [command |-> IF s.word # <<>> THEN add_string(s.command, s.word)
                 ELSE s.command,
     open |-> s.state \in {"DoubleQuote", "SingleQuote"} \/ s.open_backslash]

custom_split(input) ==
    scan_result(scan(input))

(***************************************************************************)
(* str::parse::<i32> (main.rs 48): an optional sign, then one digit or     *)
(* more, and a value that fits 32 bits.  Returns [ok, value].              *)
(***************************************************************************)
I32_MAX == 2147483647

Digits == <<"0", "1", "2", "3", "4", "5", "6", "7", "8", "9">>

IsDigit(ch) ==
    \E d \in 1..10 : Digits[d] = ch

DigitValue(ch) ==
    (CHOOSE d \in 1..10 : Digits[d] = ch) - 1

\* the digits of tok from position j on, accumulated the way from_str_radix
\* does: positively after no sign or +, negatively after -; overflow is an
\* error.  acc is the value so far.
RECURSIVE parse_digits(_, _, _, _)
parse_digits(tok, j, negative, acc) ==
    IF j > Len(tok) THEN [ok |-> TRUE, value |-> acc]
    ELSE IF ~IsDigit(tok[j]) THEN [ok |-> FALSE, value |-> 0]
    ELSE LET d == DigitValue(tok[j])
             slack == IF negative /\ d > 0 THEN d - 1 ELSE d
             fits == (IF negative THEN 0 - acc ELSE acc) <= (I32_MAX - slack) \div 10
         IN  IF ~fits THEN [ok |-> FALSE, value |-> 0]
             ELSE parse_digits(tok, j + 1, negative,
                               IF negative THEN acc * 10 - d ELSE acc * 10 + d)

parse_i32(tok) ==
    IF tok = <<>> THEN [ok |-> FALSE, value |-> 0]
    ELSE IF tok[1] \in {"+", "-"}
         THEN IF Len(tok) = 1 THEN [ok |-> FALSE, value |-> 0]
              ELSE parse_digits(tok, 2, tok[1] = "-", 0)
    ELSE parse_digits(tok, 1, FALSE, 0)

(***************************************************************************)
(* The command table (main.rs 33-65).  Names are strings of the model.     *)
(***************************************************************************)
ECHO == <<"e", "c", "h", "o">>
PWD == <<"p", "w", "d">>
CD == <<"c", "d">>
MV == <<"m", "v">>
CP == <<"c", "p">>
LS == <<"l", "s">>
CAT == <<"c", "a", "t">>
RM == <<"r", "m">>
MKDIR == <<"m", "k", "d", "i", "r">>
HISTORY == <<"h", "i", "s", "t", "o", "r", "y">>
EXIT == <<"e", "x", "i", "t">>
CLEAR == <<"c", "l", "e", "a", "r">>

CommandTable ==
    {ECHO, PWD, CD, MV, CP, LS, CAT, RM, MKDIR, HISTORY, EXIT, CLEAR}

\* the messages main.rs writes with print_error
SyntaxErrorMsg == "Syntax error: Unterminated quoted string"
IllegalNumberMsg == "exit: Illegal number: "
NotFoundMsg == "Command not found"

(***************************************************************************)
(* The directories of the model and what the environment decides during a  *)
(* collaborator's call: whether set_current_dir and current_dir succeed,   *)
(* which directory a path names, whether a file operation succeeds and     *)
(* whether the last operand is a directory.                                *)
(***************************************************************************)
Dirs == {"/", "/home/u"}

\* how many lines of the input stream a collaborator finds before its end
MaxCatLines == 1

DefaultEnv ==
    [chdir_ok |-> TRUE, target |-> "/", getcwd_ok |-> TRUE, fs_ok |-> TRUE,
     dst_is_dir |-> TRUE, stdin_lines |-> 0]

Envs(command) ==
    IF command = CD
    THEN {[DefaultEnv EXCEPT !.chdir_ok = c, !.target = t, !.getcwd_ok = g] :
            c \in BOOLEAN, t \in Dirs, g \in BOOLEAN}
    ELSE IF command \in {LS, MKDIR}
    THEN {[DefaultEnv EXCEPT !.fs_ok = f] : f \in BOOLEAN}
    ELSE IF command = CAT
    THEN {[DefaultEnv EXCEPT !.fs_ok = f, !.stdin_lines = n] :
            f \in BOOLEAN, n \in 0..MaxCatLines}
    ELSE IF command \in {MV, CP, RM}
    THEN {[DefaultEnv EXCEPT !.dst_is_dir = d, !.fs_ok = f] :
            d \in BOOLEAN, f \in BOOLEAN}
    ELSE {DefaultEnv}

\* what a call of exec_command leaves behind: whether it ended the process
\* (exits, with code the exit code) or returned (code the status), the
\* session's directories, the process's working directory and the messages
\* main.rs printed
Returned(status, current_dir, history_current_dir, cwd, err) ==
    [exits |-> FALSE, code |-> status, current_dir |-> current_dir,
     history_current_dir |-> history_current_dir, cwd |-> cwd, err |-> err]

\* a variant of cd: the previous-directory marker is left as it was
cd_keeps_marker(tab, history, current_di, home, cwd, env) ==
    LET dash == tab # <<>> /\ tab[1] = <<"-">>
        empty == tab # <<>> /\ tab[1] = <<>>
        target == IF dash THEN history
                  ELSE IF tab = <<>> THEN home
                  ELSE env.target
        change == empty \/ env.chdir_ok
        cwd1 == IF change /\ ~empty THEN target ELSE cwd
    IN  IF ~change THEN Returned(1, current_di, history, cwd, <<>>)
        ELSE IF env.getcwd_ok THEN Returned(0, cwd1, history, cwd1, <<>>)
        ELSE Returned(1, current_di, history, cwd1, <<>>)

(***************************************************************************)
(* cd (cd/mod.rs 18-55).  PathBuf::push of an absolute path replaces the   *)
(* whole path, and both pushed paths are absolute.                         *)
(***************************************************************************)
cd(tab, history, current_di, home, cwd, env) ==
    LET dash == tab # <<>> /\ tab[1] = <<"-">>
        empty == tab # <<>> /\ tab[1] = <<>>
        \* the directory the path names
        target == IF dash THEN history
                  ELSE IF tab = <<>> THEN home
                  ELSE env.target
        change == empty \/ env.chdir_ok
        cwd1 == IF change /\ ~empty THEN target ELSE cwd
    IN  IF ~change THEN Returned(1, current_di, history, cwd, <<>>)
        ELSE IF env.getcwd_ok THEN Returned(0, cwd1, current_di, cwd1, <<>>)
        ELSE Returned(1, current_di, current_di, cwd1, <<>>)

(***************************************************************************)
(* The status of the other collaborators.                                  *)
(***************************************************************************)
echo(args) == 0

pwd(current_dir) == 0

history(hist) == 0

\* rm (rm/mod.rs 14-66): 1 without operand, 0 otherwise
rm(args) ==
    IF \A j \in 1..Len(args) : args[j] = <<"-", "r">> THEN 1 ELSE 0

\* mkdir (mkdir/mod.rs 13-34)
mkdir(args) ==
    IF args = <<>> THEN 1 ELSE 0

\* cp (cp/mod.rs 13-45)
cp(args, env) ==
    IF Len(args) < 2 THEN 1
    ELSE IF Len(args) > 2 /\ ~env.dst_is_dir THEN 1
    ELSE 0

\* mv (mv/mod.rs 13-79)
mv(args, env) ==
    IF Len(args) < 2 THEN 1
    ELSE IF Len(args) > 2 /\ ~env.dst_is_dir THEN 1
    ELSE 0

\* ls (ls/mod.rs 436-543): 2 on an option letter other than a, F, l; 1 when
\* a directory cannot be read
ls(tab, env) ==
    IF \E j \in 1..Len(tab) :
          /\ tab[j] # <<>>
          /\ tab[j][1] = "-"
          /\ \E k \in 2..Len(tab[j]) : tab[j][k] \notin {"a", "F", "l"}
    THEN 2
    ELSE IF env.fs_ok THEN 0 ELSE 1

\* cat (cat/mod.rs 14-43): 1 when a read fails.  Without operand cat copies
\* the input stream to its end; the stream of the model has no content of its
\* own, so only the status is kept.
cat(args, env) ==
    IF env.fs_ok THEN 0 ELSE 1

(***************************************************************************)
(* What a collaborator does besides returning a status.                    *)
(*                                                                         *)
(* rm (rm/mod.rs 31-63) walks each operand from current_dir: the operand   *)
(* is split on the slash, a part "." is passed over, a part ".." pops the  *)
(* path, any other part, the empty one included, is pushed and makes the   *)
(* operand valid.  The path walked is kept relative to current_dir: up is  *)
(* how many components of current_dir were popped and down the components  *)
(* pushed and not popped; pushing the empty part leaves the path at the    *)
(* same place.  With down empty the path is current_dir or an ancestor.    *)
(***************************************************************************)
DASH_R == <<"-", "r">>

RECURSIVE split_slash_from(_, _, _, _)
split_slash_from(s, j, cur, acc) ==
    IF j > Len(s) THEN Append(acc, cur)
    ELSE IF s[j] = "/" THEN split_slash_from(s, j + 1, <<>>, Append(acc, cur))
    ELSE split_slash_from(s, j + 1, Append(cur, s[j]), acc)

rm_parts(arg) ==
    split_slash_from(arg, 1, <<>>, <<>>)

RECURSIVE rm_walk(_, _, _)
rm_walk(parts, k, tmp) ==
    IF k > Len(parts) THEN tmp
    ELSE LET part == parts[k]
         IN  IF part = <<".">> THEN rm_walk(parts, k + 1, tmp)
             ELSE IF part = <<".", ".">>
             THEN rm_walk(parts, k + 1,
                          IF tmp.down # <<>>
                          THEN [tmp EXCEPT !.down = SubSeq(@, 1, Len(@) - 1)]
                          ELSE [tmp EXCEPT !.up = @ + 1])
             ELSE IF part = <<>>
             THEN rm_walk(parts, k + 1, [tmp EXCEPT !.valid = TRUE])
             ELSE rm_walk(parts, k + 1, [tmp EXCEPT !.down = Append(@, part),
                                                    !.valid = TRUE])

rm_path(arg) ==
    rm_walk(rm_parts(arg), 1, [up |-> 0, down |-> <<>>, valid |-> FALSE])

\* the operands of rm (rm/mod.rs 18-24)
rm_recursive(args) ==
    \E j \in 1..Len(args) : args[j] = DASH_R

rm_operands(args) ==
    {args[j] : j \in {k \in 1..Len(args) : args[k] # DASH_R}}

\* rm/mod.rs 47-50: the operands rm refuses
rm_skipped(args) ==
    {arg \in rm_operands(args) : ~rm_path(arg).valid}

\* rm/mod.rs 51-63: the paths rm removes; current_dir and its ancestors are
\* directories, the environment says what another path is and whether the
\* removal succeeds
rm_is_dir(tmp, env) ==
    tmp.down = <<>> \/ env.dst_is_dir

rm_removed(args, env) ==
    {[up |-> rm_path(arg).up, down |-> rm_path(arg).down] :
       arg \in {a \in rm_operands(args) :
                  /\ rm_path(a).valid
                  /\ env.fs_ok
                  /\ rm_is_dir(rm_path(a), env) => rm_recursive(args)}}

\* rm/mod.rs 53-62: an operand rm could not remove
rm_failed(args, env) ==
    \E arg \in rm_operands(args) :
       /\ rm_path(arg).valid
       /\ \/ ~env.fs_ok
          \/ rm_is_dir(rm_path(arg), env) /\ ~rm_recursive(args)

\* mkdir/mod.rs 29-31: create_dir fails
mkdir_failed(args, env) ==
    args # <<>> /\ ~env.fs_ok

\* cp/mod.rs 25-43: a source is missing or a directory, or the copy fails
cp_failed(args, env) ==
    /\ Len(args) >= 2
    /\ Len(args) > 2 => env.dst_is_dir
    /\ ~env.fs_ok

\* mv/mod.rs 30-77: a source is missing, or neither rename nor copy succeeds
mv_failed(args, env) ==
    /\ Len(args) >= 2
    /\ Len(args) > 2 => env.dst_is_dir
    /\ ~env.fs_ok

\* a variant of cat_stdin_lines: cat reads the input stream whatever its
\* operands
cat_stdin_lines_always(args, env) ==
    env.stdin_lines

\* cat/mod.rs 16-26: without operand cat reads the lines of the input
\* stream up to its end
cat_stdin_lines(args, env) ==
    IF args = <<>> THEN env.stdin_lines ELSE 0

\* what one call of exec_command did: whether an operation of rm, mkdir, cp
\* or mv failed, what rm removed and refused, the history the history
\* collaborator was given, and the lines a collaborator read
NoCallEffects ==
    [failed |-> FALSE, removed |-> {}, skipped |-> {}, shown |-> <<>>,
     stdin_lines |-> 0]

call_effects(command, args, hist, env) ==
    CASE command = RM ->
           [NoCallEffects EXCEPT !.failed = rm_failed(args, env),
                                 !.removed = rm_removed(args, env),
                                 !.skipped = rm_skipped(args)]
      [] command = MKDIR ->
           [NoCallEffects EXCEPT !.failed = mkdir_failed(args, env)]
      [] command = CP -> [NoCallEffects EXCEPT !.failed = cp_failed(args, env)]
      [] command = MV -> [NoCallEffects EXCEPT !.failed = mv_failed(args, env)]
      [] command = HISTORY -> [NoCallEffects EXCEPT !.shown = hist]
      [] command = CAT ->
           [NoCallEffects EXCEPT !.stdin_lines = cat_stdin_lines(args, env)]
      [] OTHER -> NoCallEffects

(***************************************************************************)
(* exec_command (main.rs 24-66).                                           *)
(***************************************************************************)
\* a variant of exit_command: a bare exit ends the process with 0
exit_command_zero(args, last_command_staus) ==
    IF Len(args) = 0 THEN [exits |-> TRUE, code |-> 0, err |-> <<>>]
    ELSE LET p == parse_i32(args[1])
         IN  IF p.ok THEN [exits |-> TRUE, code |-> p.value, err |-> <<>>]
             ELSE [exits |-> FALSE, code |-> 2, err |-> <<IllegalNumberMsg>>]

\* a variant of exit_command: an illegal number ends the process with 2
exit_command_fatal(args, last_command_staus) ==
    IF Len(args) = 0 THEN [exits |-> TRUE, code |-> last_command_staus, err |-> <<>>]
    ELSE LET p == parse_i32(args[1])
         IN  IF p.ok THEN [exits |-> TRUE, code |-> p.value, err |-> <<>>]
             ELSE [exits |-> TRUE, code |-> 2, err |-> <<IllegalNumberMsg>>]

\* a variant of command_not_found: the status is 1
command_not_found_1(command) ==
    [exits |-> FALSE, code |-> 1, err |-> <<NotFoundMsg>>]

\* "exit" (main.rs 44-56)
exit_command(args, last_command_staus) ==
    IF Len(args) = 0 THEN [exits |-> TRUE, code |-> last_command_staus, err |-> <<>>]
    ELSE LET p == parse_i32(args[1])
         IN  IF p.ok THEN [exits |-> TRUE, code |-> p.value, err |-> <<>>]
             ELSE [exits |-> FALSE, code |-> 2, err |-> <<IllegalNumberMsg>>]

\* the default arm (main.rs 61-64)
command_not_found(command) ==
    [exits |-> FALSE, code |-> 127, err |-> <<NotFoundMsg>>]

\* a variant of exec_command: every collaborator but cd leaves the session
\* in the home directory
exec_command_home(command, args, current_dir, history_current_dir, hist, home, last_command_staus, cwd, env) ==
    IF command = CD
    THEN cd(args, history_current_dir, current_dir, home, cwd, env)
    ELSE IF command = EXIT
    THEN LET r == exit_command(args, last_command_staus)
         IN  [exits |-> r.exits, code |-> r.code, current_dir |-> current_dir,
              history_current_dir |-> history_current_dir, cwd |-> cwd,
              err |-> r.err]
    ELSE Returned(0, home, current_dir, cwd, <<>>)

exec_command(command, args, current_dir, history_current_dir, hist, home, last_command_staus, cwd, env) ==
    LET same(status) ==
            Returned(status, current_dir, history_current_dir, cwd, <<>>)
        with(r) ==
            [exits |-> r.exits, code |-> r.code, current_dir |-> current_dir,
             history_current_dir |-> history_current_dir, cwd |-> cwd,
             err |-> r.err]
    IN  CASE command = ECHO -> same(echo(args))
          [] command = PWD -> same(pwd(current_dir))
          [] command = CD -> cd(args, history_current_dir, current_dir, home, cwd, env)
          [] command = MV -> same(mv(args, env))
          [] command = CP -> same(cp(args, env))
          [] command = LS -> same(ls(args, env))
          [] command = CAT -> same(cat(args, env))
          [] command = RM -> same(rm(args))
          [] command = MKDIR -> same(mkdir(args))
          [] command = HISTORY -> same(history(hist))
          [] command = EXIT -> with(exit_command(args, last_command_staus))
          [] command = CLEAR -> same(0)
          [] OTHER -> with(command_not_found(command))

(***************************************************************************)
(* The state of the interactive loop (main.rs 87-98 and the locals of one  *)
(* turn of the loop) and of the process around it.                         *)
(***************************************************************************)
VARIABLES
    pc,                     \* where main is: "read" (the prompt and the
                            \* primary read, 104-112), "cont" (the
                            \* continuation loop, 120-139), "decide"
                            \* (142-166), "exited"
    entry,                  \* the accumulated buffer
    command,                \* the Command of the last tokenization
    open_quote,             \* its unterminated flag
    hist,                   \* the history
    last_command_staus,     \* the status of the last dispatched command
    current_dir,            \* the session's current directory
    history_current_dir,    \* the previous-directory marker
    home,                   \* the home directory
    cwd,                    \* the working directory of the process
    exit,                   \* how the process ended: [cause, code]
    stderr,                 \* the messages main.rs has printed
    reads,                  \* how many lines have been read
    log,                    \* one record per logical command that ended
    effects                 \* what the last call of exec_command did, the
                            \* session's directories when it began, how
                            \* many lines collaborators have read and how
                            \* many times the interrupt handler has run

VARIABLES
    input,      \* the string custom_split is called on
    done,       \* whether the call has returned
    result,     \* what the call returned: [command, open]
    scanner     \* the call in progress: the locals s, the segments chs,
                \* the segment i and the character j the loops are at,
                \* at: "line" (the top of the loop over the lines), "char"
                \* (the loop over the characters) or "end" (lib.rs 174),
                \* and used: how many characters the last turn took

loop_vars ==
    <<pc, entry, command, open_quote, hist, last_command_staus, current_dir,
      history_current_dir, home, cwd, exit, stderr, reads, log, effects>>

split_vars == <<input, done, result, scanner>>

vars == <<loop_vars, split_vars>>

(***************************************************************************)
(* The input stream.  A read returns a physical line (with its line feed,  *)
(* or without one when the stream ends inside the line), returns zero      *)
(* bytes, or fails.                                                        *)
(***************************************************************************)
\* how many lines a session reads at most
MaxReads == 3

StdinLines ==
    { <<LF>>,
      <<"x", LF>>,
      <<"e", "x", "i", "t", LF>>,
      <<"e", "x", "i", "t", SP, "3", LF>>,
      <<"e", "x", "i", "t", SP, "z", LF>>,
      <<"e", "x", "i", "t", SP, "2", "1", "4", "7", "4", "8", "3", "6", "4", "8", LF>>,
      <<DQ, LF>>,
      <<BS, LF>>,
      <<"c", "d", LF>>,
      <<"x">> }

Running == [cause |-> "running", code |-> 0]

\* a variant of EofExitCode: the exit code is the last status
EofExitCodeLast == last_command_staus

\* the exit code of the process when the primary read returns zero bytes
\* (main.rs 113-116)
EofExitCode == 0

\* a panic of the main thread ends the process with 101, an Err returned
\* from main with 1
PanicExitCode == 101
MainErrExitCode == 1

\* a variant of retokenize: only the new line is tokenized
retokenize_delta(buffer, input_tmp) ==
    custom_split(input_tmp)

\* a variant of record_history: the entry is recorded without its last
\* character (the line feed)
record_history_trimmed(h, raw) ==
    IF Len(split_whitespace(raw)) # 0
    THEN Append(h, SubSeq(raw, 1, Len(raw) - 1)) ELSE h

\* main.rs 133: the tokenizer runs over the whole buffer
retokenize(buffer, input_tmp) ==
    custom_split(buffer \o input_tmp)

\* a variant of record_history: the entry is put in front of the others
record_history_front(h, raw) ==
    IF Len(split_whitespace(raw)) # 0 THEN <<raw>> \o h ELSE h

\* main.rs 164-166
record_history(h, raw) ==
    IF Len(split_whitespace(raw)) # 0 THEN Append(h, raw) ELSE h

LogRecord(raw, outcome, name, args, status) ==
    [entry |-> raw, outcome |-> outcome, name |-> name, args |-> args,
     status |-> status]

\* lib.rs 77-92: the locals of custom_split before its loops
ScannerStart(str) ==
    [s |-> ScanInit, chs |-> split_lines(str), i |-> 1, j |-> 1,
     at |-> "line", used |-> 0]

\* the session's directories when a call began
DirsBefore(current_di, marker) ==
    [current_dir |-> current_di, history_current_dir |-> marker]

\* nothing done yet
NoEffects ==
    [call |-> NoCallEffects, stdin_lines |-> 0, interrupts |-> 0,
     before |-> DirsBefore("", "")]

SplitIdle ==
    /\ input = <<>>
    /\ done = FALSE
    /\ result = [command |-> EmptyCommand, open |-> FALSE]
    /\ scanner = ScannerStart(<<>>)

\* main.rs 87-101
Init ==
    /\ pc = "read"
    /\ entry = <<>>
    /\ command = EmptyCommand
    /\ open_quote = FALSE
    /\ hist = <<>>
    /\ last_command_staus = 0
    /\ cwd \in Dirs
    /\ current_dir = cwd
    /\ history_current_dir = cwd
    /\ home \in Dirs
    /\ exit = Running
    /\ stderr = <<>>
    /\ reads = 0
    /\ log = <<>>
    /\ effects = NoEffects
    /\ SplitIdle

\* the next turn of the loop: the locals of the turn are gone
NextTurn ==
    /\ pc' = "read"
    /\ entry' = <<>>
    /\ command' = EmptyCommand
    /\ open_quote' = FALSE

Exit(cause, code) ==
    /\ pc' = "exited"
    /\ exit' = [cause |-> cause, code |-> code]

\* a variant of PrimaryRead: the continuation loop is entered whatever the
\* first tokenization says
PrimaryReadAlwaysContinues(line) ==
    /\ pc = "read"
    /\ reads < MaxReads
    /\ reads' = reads + 1
    /\ entry' = line
    /\ LET r == custom_split(line)
       IN  /\ command' = r.command
           /\ open_quote' = r.open
           /\ pc' = "cont"
    /\ UNCHANGED <<hist, last_command_staus, current_dir, history_current_dir,
                   home, cwd, exit, stderr, log, effects, split_vars>>

\* main.rs 104-118: the prompt, a line read, the first tokenization
PrimaryRead(line) ==
    /\ pc = "read"
    /\ reads < MaxReads
    /\ reads' = reads + 1
    /\ entry' = line
    /\ LET r == custom_split(line)
       IN  /\ command' = r.command
           /\ open_quote' = r.open
           /\ pc' = IF r.open THEN "cont" ELSE "decide"
    /\ UNCHANGED <<hist, last_command_staus, current_dir, history_current_dir,
                   home, cwd, exit, stderr, log, effects, split_vars>>

\* main.rs 113-116: zero bytes on the primary read
PrimaryEOF ==
    /\ pc = "read"
    /\ Exit("eof", EofExitCode)
    /\ UNCHANGED <<entry, command, open_quote, hist, last_command_staus,
                   current_dir, history_current_dir, home, cwd, stderr, reads,
                   log, effects, split_vars>>

\* main.rs 112 and 126: read_line fails and unwrap panics
ReadError ==
    /\ pc \in {"read", "cont"}
    /\ Exit("panic", PanicExitCode)
    /\ UNCHANGED <<entry, command, open_quote, hist, last_command_staus,
                   current_dir, history_current_dir, home, cwd, stderr, reads,
                   log, effects, split_vars>>

\* main.rs 110 and 124: flush fails and main returns the error
FlushError ==
    /\ pc \in {"read", "cont"}
    /\ Exit("io_error", MainErrExitCode)
    /\ UNCHANGED <<entry, command, open_quote, hist, last_command_staus,
                   current_dir, history_current_dir, home, cwd, stderr, reads,
                   log, effects, split_vars>>

\* main.rs 121-138: one more line for an unterminated buffer
ContinuationRead(line) ==
    /\ pc = "cont"
    /\ reads < MaxReads
    /\ reads' = reads + 1
    /\ entry' = entry \o line
    /\ LET r == retokenize(entry, line)
       IN  /\ command' = r.command
           /\ open_quote' = r.open
           /\ pc' = IF r.open THEN "cont" ELSE "decide"
    /\ UNCHANGED <<hist, last_command_staus, current_dir, history_current_dir,
                   home, cwd, exit, stderr, log, effects, split_vars>>

\* a variant of ContinuationEOF: the loop goes on with the next read
ContinuationEOFKeepsReading ==
    /\ pc = "cont"
    /\ pc' = "cont"
    /\ UNCHANGED <<entry, command, open_quote, hist, last_command_staus,
                   current_dir, history_current_dir, home, cwd, exit, stderr,
                   reads, log, effects, split_vars>>

\* main.rs 126-130: zero bytes on a continuation read
ContinuationEOF ==
    /\ pc = "cont"
    /\ pc' = "decide"
    /\ UNCHANGED <<entry, command, open_quote, hist, last_command_staus,
                   current_dir, history_current_dir, home, cwd, exit, stderr,
                   reads, log, effects, split_vars>>

\* a variant of BlankContinue: the blank buffer is pushed on the history
BlankContinueRecorded ==
    /\ pc = "decide"
    /\ command.name = <<>>
    /\ NextTurn
    /\ hist' = Append(hist, entry)
    /\ log' = Append(log, LogRecord(entry, "blank", command.name, command.args, 0))
    /\ UNCHANGED <<last_command_staus, current_dir, history_current_dir,
                   home, cwd, exit, stderr, reads, effects, split_vars>>

\* main.rs 142-144
BlankContinue ==
    /\ pc = "decide"
    /\ command.name = <<>>
    /\ NextTurn
    /\ log' = Append(log, LogRecord(entry, "blank", command.name, command.args, 0))
    /\ UNCHANGED <<hist, last_command_staus, current_dir, history_current_dir,
                   home, cwd, exit, stderr, reads, effects, split_vars>>

\* main.rs 146-149
SyntaxError ==
    /\ pc = "decide"
    /\ command.name # <<>>
    /\ open_quote
    /\ stderr' = Append(stderr, SyntaxErrorMsg)
    /\ NextTurn
    /\ log' = Append(log, LogRecord(entry, "syntax", command.name, command.args, 0))
    /\ UNCHANGED <<hist, last_command_staus, current_dir, history_current_dir,
                   home, cwd, exit, reads, effects, split_vars>>

\* main.rs 151-166: exec_command, the status, the history
Dispatch ==
    /\ pc = "decide"
    /\ command.name # <<>>
    /\ ~open_quote
    /\ \E env \in Envs(command.name) :
         LET r == exec_command(command.name, command.args, current_dir,
                               history_current_dir, hist, home,
                               last_command_staus, cwd, env)
             e == call_effects(command.name, command.args, hist, env)
         IN  /\ stderr' = stderr \o r.err
             /\ effects' = [effects EXCEPT
                              !.call = e,
                              !.stdin_lines = @ + e.stdin_lines,
                              !.before = DirsBefore(current_dir,
                                                    history_current_dir)]
             /\ current_dir' = r.current_dir
             /\ history_current_dir' = r.history_current_dir
             /\ cwd' = r.cwd
             /\ IF r.exits
                THEN /\ Exit("exit", r.code)
                     /\ log' = Append(log, LogRecord(entry, "exit", command.name,
                                                     command.args, r.code))
                     /\ UNCHANGED <<entry, command, open_quote, hist,
                                    last_command_staus>>
                ELSE /\ last_command_staus' = r.code
                     /\ hist' = record_history(hist, entry)
                     /\ log' = Append(log, LogRecord(entry, "dispatched",
                                                     command.name, command.args,
                                                     r.code))
                     /\ NextTurn
                     /\ UNCHANGED exit
    /\ UNCHANGED <<home, reads, split_vars>>

Next ==
    \/ \E line \in StdinLines : PrimaryRead(line)
    \/ PrimaryEOF
    \/ ReadError
    \/ FlushError
    \/ \E line \in StdinLines : ContinuationRead(line)
    \/ ContinuationEOF
    \/ BlankContinue
    \/ SyntaxError
    \/ Dispatch

Spec ==
    Init /\ [][Next]_vars

(***************************************************************************)
(* SpecEof: the interactive loop on a finite input stream.  The stream     *)
(* holds at most MaxReads lines, and once they are read every read returns *)
(* zero bytes.  No read and no write of a prompt fails (main.rs 110, 112,  *)
(* 124, 126 end the process at once when one does).  A blocking read at    *)
(* the end of the stream returns, and main takes the step that follows a   *)
(* read.                                                                   *)
(***************************************************************************)
\* a blank line, a command, an open quote (or its closing one), a pending
\* backslash, and a command cut by the end of the stream
EofLines ==
    { <<LF>>,
      <<"x", LF>>,
      <<DQ, LF>>,
      <<BS, LF>>,
      <<"x">> }

EofNext ==
    \/ \E line \in EofLines : PrimaryRead(line)
    \/ PrimaryEOF
    \/ \E line \in EofLines : ContinuationRead(line)
    \/ ContinuationEOF
    \/ BlankContinue
    \/ SyntaxError
    \/ Dispatch

SpecEof ==
    /\ Init /\ [][EofNext]_vars
    /\ WF_vars(PrimaryEOF) /\ WF_vars(ContinuationEOF)
    /\ WF_vars(BlankContinue) /\ WF_vars(SyntaxError) /\ WF_vars(Dispatch)

(***************************************************************************)
(* SpecSession: the interactive loop on lines that name the collaborators  *)
(* with an effect, with the interrupt signal.  ctrlc::set_handler (main.rs *)
(* 99-101) installs a handler that runs on its own thread each time the    *)
(* signal is delivered, wherever the loop is.                              *)
(***************************************************************************)
\* how many lines a session of SpecSession reads at most
MaxSessionReads == 2
\* how many times the signal is delivered at most
MaxInterrupts == 1

WithLF(s) == Append(s, LF)

SessionLines ==
    { <<LF>>,
      <<DQ, LF>>,
      WithLF(PWD),
      WithLF(CD),
      WithLF(CD \o <<SP, "-">>),
      WithLF(MV \o <<SP, "a", SP, "b">>),
      WithLF(CP \o <<SP, "a", SP, "b">>),
      WithLF(CAT),
      WithLF(CAT \o <<SP, "a">>),
      WithLF(RM \o <<SP, "a">>),
      WithLF(RM \o <<SP, "-", "r", SP, ".", "/">>),
      WithLF(MKDIR \o <<SP, "a">>),
      WithLF(HISTORY),
      WithLF(<<"x">>) }

\* a variant of Interrupt: the signal ends the process, as it does when no
\* handler is installed
InterruptEndsProcess ==
    /\ pc \in {"read", "cont", "decide"}
    /\ effects.interrupts < MaxInterrupts
    /\ effects' = [effects EXCEPT !.interrupts = @ + 1]
    /\ Exit("signal", 130)
    /\ UNCHANGED <<entry, command, open_quote, hist, last_command_staus,
                   current_dir, history_current_dir, home, cwd, stderr,
                   reads, log, split_vars>>

\* the handler of main.rs 99: an empty closure
Interrupt ==
    /\ pc \in {"read", "cont", "decide"}
    /\ effects.interrupts < MaxInterrupts
    /\ effects' = [effects EXCEPT !.interrupts = @ + 1]
    /\ UNCHANGED <<pc, entry, command, open_quote, hist, last_command_staus,
                   current_dir, history_current_dir, home, cwd, exit, stderr,
                   reads, log, split_vars>>

SessionPrimaryRead(line) ==
    /\ reads < MaxSessionReads
    /\ PrimaryRead(line)

SessionContinuationRead(line) ==
    /\ reads < MaxSessionReads
    /\ ContinuationRead(line)

SessionNext ==
    \/ \E line \in SessionLines : SessionPrimaryRead(line)
    \/ PrimaryEOF
    \/ ReadError
    \/ FlushError
    \/ \E line \in SessionLines : SessionContinuationRead(line)
    \/ ContinuationEOF
    \/ BlankContinue
    \/ SyntaxError
    \/ Dispatch
    \/ Interrupt

SpecSession ==
    Init /\ [][SessionNext]_vars

(***************************************************************************)
(* SpecCd: the interactive loop on lines that call cd, with pwd between    *)
(* them, for the sequences of directory changes of a session.              *)
(***************************************************************************)
CdLines ==
    { WithLF(CD),
      WithLF(CD \o <<SP, "-">>),
      WithLF(CD \o <<SP, "x">>),
      WithLF(CD \o <<SP, DQ, DQ, SP>>),
      WithLF(PWD) }

CdNext ==
    \/ \E line \in CdLines : PrimaryRead(line)
    \/ PrimaryEOF
    \/ Dispatch

SpecCd ==
    Init /\ [][CdNext]_vars

(***************************************************************************)
(* SpecSplit: custom_split applied to every string over SplitAlphabet of   *)
(* length at most MaxInputLen.                                             *)
(***************************************************************************)
LoopIdle ==
    /\ pc = "idle"
    /\ entry = <<>>
    /\ command = EmptyCommand
    /\ open_quote = FALSE
    /\ hist = <<>>
    /\ last_command_staus = 0
    /\ cwd = "/"
    /\ current_dir = "/"
    /\ history_current_dir = "/"
    /\ home = "/"
    /\ exit = Running
    /\ stderr = <<>>
    /\ reads = 0
    /\ log = <<>>
    /\ effects = NoEffects

SplitInit ==
    /\ input \in StringsUpTo(SplitAlphabet, MaxInputLen)
    /\ done = FALSE
    /\ result = [command |-> EmptyCommand, open |-> FALSE]
    /\ scanner = ScannerStart(<<>>)
    /\ LoopIdle

CallCustomSplit ==
    /\ ~done
    /\ done' = TRUE
    /\ result' = custom_split(input)
    /\ UNCHANGED <<input, scanner, loop_vars>>

SplitNext ==
    CallCustomSplit

SpecSplit ==
    SplitInit /\ [][SplitNext]_vars

(***************************************************************************)
(* SpecCont: the reads of one logical command on their own (main.rs        *)
(* 104-139), over every physical line of at most MaxLineLen characters     *)
(* with or without its line feed, for buffers of at most MaxBufferLen      *)
(* characters.  A line without a line feed is what read_line returns when  *)
(* the stream ends inside the line; a terminal goes on reading after it.   *)
(***************************************************************************)
\* longest physical line, its line feed not counted
MaxLineLen == 3
\* longest accumulated buffer
MaxBufferLen == 6

\* the lines of the worked example: a double quote opened on one line and
\* closed on the next, with and without their line feeds
AbcLine == <<DQ, "a", "b", "c", LF>>
DefLine == <<"d", "e", "f", DQ, LF>>
AbcPartialLine == <<DQ, "a", "b", "c">>
DefPartialLine == <<"d", "e", "f", DQ>>

ExampleLines == {AbcLine, DefLine, AbcPartialLine, DefPartialLine}

\* the characters the other lines are made of, before their line feed
ContAlphabet == {SP, BS, DQ}

ContLines ==
    LET body == StringsUpTo(ContAlphabet, MaxLineLen)
    IN  {Append(b, LF) : b \in body} \cup (body \ {<<>>}) \cup ExampleLines

ContInit ==
    /\ pc = "read"
    /\ entry = <<>>
    /\ command = EmptyCommand
    /\ open_quote = FALSE
    /\ hist = <<>>
    /\ last_command_staus = 0
    /\ cwd = "/"
    /\ current_dir = "/"
    /\ history_current_dir = "/"
    /\ home = "/"
    /\ exit = Running
    /\ stderr = <<>>
    /\ reads = 0
    /\ log = <<>>
    /\ effects = NoEffects
    /\ SplitIdle

FitsBuffer(line) ==
    Len(entry) + Len(line) <= MaxBufferLen \/ line \in ExampleLines

ContFirstLine(line) ==
    /\ FitsBuffer(line)
    /\ PrimaryRead(line)

ContNextLine(line) ==
    /\ FitsBuffer(line)
    /\ ContinuationRead(line)

ContNext ==
    \/ \E line \in ContLines : ContFirstLine(line)
    \/ \E line \in ContLines : ContNextLine(line)

SpecCont ==
    ContInit /\ [][ContNext]_vars

(***************************************************************************)
(* SpecScan: custom_split one turn of its loops at a time, on every string *)
(* over SplitAlphabet of length at most MaxInputLen and on the worked      *)
(* examples.                                                               *)
(***************************************************************************)
EchoQuotedInput == <<"e", "c", "h", "o", SP, DQ, "a", SP, "b", DQ>>
EchoEscapedInput == <<"e", "c", "h", "o", SP, "a", BS, SP, "b">>
ItsInput == <<SQ, "i", "t", SQ, SQ, "s", SQ>>
AbCdInput == <<DQ, "a", "b", DQ, "c", "d">>
DollarInput == <<DQ, BS, DOLLAR, BS, "a", DQ>>
BacktickInput == <<DQ, BS, BACKTICK, DQ>>
TabInput == <<SQ, "a", TAB, "b", SQ>>
EmptyArgInput == <<"a", SP, SQ, SQ, SP, "b">>
EmptyFirstInput == <<DQ, DQ, SP, "a", SP, "a">>

ExampleInputs ==
    {EchoQuotedInput, EchoEscapedInput, ItsInput, AbCdInput, DollarInput,
     BacktickInput, TabInput, EmptyArgInput, EmptyFirstInput}

ScanSpecInit ==
    /\ input \in StringsUpTo(SplitAlphabet, MaxInputLen) \cup ExampleInputs
    /\ done = FALSE
    /\ result = [command |-> EmptyCommand, open |-> FALSE]
    /\ scanner = ScannerStart(input)
    /\ LoopIdle

\* the end of the loop over the characters of segment i: the next segment,
\* or the end of the loop over the lines
next_line(sc) ==
    IF sc.i = Len(sc.chs) THEN [sc EXCEPT !.at = "end"]
    ELSE [sc EXCEPT !.i = @ + 1, !.j = 1, !.at = "line"]

\* a variant of StepLineStart: the loop over the lines does not get past
\* an empty segment
StepLineStartStopsOnEmpty ==
    /\ scanner.at = "line"
    /\ scanner.chs[scanner.i] # <<>>
    /\ scanner' = [scanner EXCEPT
                     !.s = line_start(@, scanner.i, Len(scanner.chs)),
                     !.j = 1, !.used = 0, !.at = "char"]
    /\ UNCHANGED <<input, done, result, loop_vars>>

\* lib.rs 93-100: the top of the loop over the lines
StepLineStart ==
    /\ scanner.at = "line"
    /\ LET sc == [scanner EXCEPT
                    !.s = line_start(@, scanner.i, Len(scanner.chs)),
                    !.j = 1, !.used = 0, !.at = "char"]
       IN  scanner' = IF scanner.chs[scanner.i] = <<>> THEN next_line(sc)
                      ELSE sc
    /\ UNCHANGED <<input, done, result, loop_vars>>

\* lib.rs 101-171: one turn of the loop over the characters
StepChar ==
    /\ scanner.at = "char"
    /\ LET line == scanner.chs[scanner.i]
           r == scan_char(scanner.s, line, scanner.j)
           sc == [scanner EXCEPT !.s = r.s, !.j = @ + r.used,
                                 !.used = r.used]
       IN  scanner' = IF sc.j > Len(line) THEN next_line(sc) ELSE sc
    /\ UNCHANGED <<input, done, result, loop_vars>>

\* lib.rs 174-179: the end of the scan
StepEnd ==
    /\ scanner.at = "end"
    /\ ~done
    /\ done' = TRUE
    /\ result' = scan_result(scanner.s)
    /\ UNCHANGED <<input, scanner, loop_vars>>

ScanNext ==
    \/ StepLineStart
    \/ StepChar
    \/ StepEnd

SpecScan ==
    ScanSpecInit /\ [][ScanNext]_vars

\* the call runs on: a turn that can be taken is taken
SpecScanLive ==
    SpecScan /\ WF_vars(ScanNext)

(***************************************************************************)
(* Properties of custom_split, checked under SpecSplit.                    *)
(***************************************************************************)
\* a Command made of a sequence of tokens: the first is the name
CommandOf(tokens) ==
    IF tokens = <<>> THEN EmptyCommand
    ELSE [name |-> Head(tokens), args |-> Tail(tokens)]

HasNoQuoting(s) ==
    \A j \in 1..Len(s) : s[j] \notin {SQ, DQ, BS}

\* the scan of section 4.1 of the specification reduced to what decides
\* the flag: the state and the pending escape after each character.  A line
\* feed resolves a pending escape when another physical line follows it.
RuleStep(r, s, j) ==
    LET ch == s[j]
    IN  IF ch = LF
        THEN [r EXCEPT !.pending = r.pending /\ j = Len(s)]
        ELSE CASE r.state = "Normal" ->
                    IF r.pending THEN [r EXCEPT !.pending = FALSE]
                    ELSE IF ch = BS THEN [r EXCEPT !.pending = TRUE]
                    ELSE IF ch = DQ THEN [r EXCEPT !.state = "DoubleQuote"]
                    ELSE IF ch = SQ THEN [r EXCEPT !.state = "SingleQuote"]
                    ELSE r
               [] r.state = "DoubleQuote" ->
                    IF r.pending THEN [r EXCEPT !.pending = FALSE]
                    ELSE IF ch = BS THEN [r EXCEPT !.pending = TRUE]
                    ELSE IF ch = DQ THEN [r EXCEPT !.state = "Normal"]
                    ELSE r
               [] r.state = "SingleQuote" ->
                    IF ch = SQ THEN [r EXCEPT !.state = "Normal"] ELSE r

RECURSIVE RuleScan(_, _, _)
RuleScan(r, s, j) ==
    IF j > Len(s) THEN r ELSE RuleScan(RuleStep(r, s, j), s, j + 1)

RuleUnterminated(s) ==
    LET r == RuleScan([state |-> "Normal", pending |-> FALSE], s, 1)
    IN  r.state \in {"DoubleQuote", "SingleQuote"} \/ r.pending

\* C2: for every input, custom_split returns unterminated = TRUE exactly
\* when the scan by the rules of the specification ends inside a quoted
\* region or with a backslash escape pending at the very end of the input.
C2_UnterminatedIffOpen ==
    done => (result.open <=> RuleUnterminated(input))

\* C3: for every input without single quote, double quote and backslash
\* (line feeds allowed), custom_split yields the whitespace-split of the
\* input, first token the name, the others the args, unterminated = FALSE.
C3_PlainInputIsWhitespaceSplit ==
    (done /\ HasNoQuoting(input)) =>
        result = [command |-> CommandOf(split_whitespace(input)),
                  open |-> FALSE]

\* position k of s holds an unescaped backslash that ends a physical line
\* which is not the last one, outside single quotes
IsContinuationAt(s, k) ==
    /\ k + 1 < Len(s)
    /\ s[k] = BS
    /\ s[k + 1] = LF
    /\ \A j \in 1..(k - 1) : s[j] # BS
    /\ scan(SubSeq(s, 1, k - 1)).state # "SingleQuote"

\* s without the two characters at k and k + 1
WithoutPair(s, k) ==
    SubSeq(s, 1, k - 1) \o SubSeq(s, k + 2, Len(s))

\* C4: an unescaped backslash that ends a physical line other than the last
\* is dropped together with the line break: the tokenization is that of the
\* input without the backslash-linefeed pair.
C4_BackslashLinefeedIsDropped ==
    done => \A k \in 1..Len(input) :
                IsContinuationAt(input, k) =>
                    result = custom_split(WithoutPair(input, k))

(***************************************************************************)
(* Properties of the interactive loop, checked under Spec.                 *)
(***************************************************************************)
HasNonWhitespace(s) ==
    \E j \in 1..Len(s) : ~is_whitespace(s[j])

EntriesOf(records) ==
    [i \in 1..Len(records) |-> records[i].entry]

IsDispatched(r) == r.outcome = "dispatched"

IsNonBlankEntry(r) == r.outcome # "exit" /\ HasNonWhitespace(r.entry)

\* the status of the most recently dispatched command of a log, 0 if none
RECURSIVE LastStatus(_)
LastStatus(records) ==
    IF records = <<>> THEN 0
    ELSE IF IsDispatched(Last(records)) THEN Last(records).status
    ELSE LastStatus(SubSeq(records, 1, Len(records) - 1))

\* main is about to call exec_command
AboutToDispatch ==
    pc = "decide" /\ command.name # <<>> /\ ~open_quote

\* C1: a command is dispatched only when the tokenizer, run over the whole
\* accumulated buffer, returned unterminated = FALSE, and the dispatched
\* name and args are the result of that tokenization; in the loop the
\* Command and the flag are always those of the whole buffer.
C1_DispatchWholeBufferTokenization ==
    /\ \A i \in 1..Len(log) :
          log[i].outcome \in {"dispatched", "exit"} =>
              custom_split(log[i].entry) =
                  [command |-> [name |-> log[i].name, args |-> log[i].args],
                   open |-> FALSE]
    /\ pc \in {"cont", "decide"} =>
          custom_split(entry) = [command |-> command, open |-> open_quote]

\* a command whose buffer is made of three physical lines was dispatched
C1_Witness ==
    \E i \in 1..Len(log) :
        /\ log[i].outcome = "dispatched"
        /\ Len(split_lines(log[i].entry)) = 4

\* C5 as stated: history holds, in order, the raw buffer of every logical
\* command with a non-whitespace character that completed or ended in a
\* syntax error.
C5_HistoryHoldsEveryNonBlankEntry ==
    pc \in {"read", "exited"} =>
        hist = EntriesOf(SelectSeq(log, IsNonBlankEntry))

\* C5 amended: history holds, in order and verbatim, the raw buffer of
\* every command that was dispatched and returned, whatever its status, and
\* nothing else.
C5_HistoryHoldsDispatchedEntries ==
    pc \in {"read", "exited"} =>
        hist = EntriesOf(SelectSeq(log, IsDispatched))

\* two commands were recorded, one failed, and a syntax error and an entry
\* with an empty name were not
C5_Witness ==
    /\ Len(hist) = 1
    /\ Len(log) = 3
    /\ \E i \in 1..Len(log) : IsDispatched(log[i]) /\ log[i].status # 0
    /\ \E i \in 1..Len(log) : log[i].outcome = "syntax"

\* C6: every logical command that ends with its buffer still unterminated
\* (end-of-stream on a continuation read) is reported as a syntax error, an
\* empty parsed name included.
C6_UnterminatedIsReported ==
    \A i \in 1..Len(log) :
        custom_split(log[i].entry).open => log[i].outcome = "syntax"

\* C7 as stated: zero bytes on the primary read end the process with the
\* status of the most recently dispatched command.
C7_EofExitsWithLastStatus ==
    exit.cause = "eof" => exit.code = LastStatus(log)

\* C7 amended: zero bytes on the primary read end the process with exit
\* code 0, whatever the last status is.
C7_EofExitsWithZero ==
    exit.cause = "eof" => (pc = "exited" /\ exit.code = 0)

C7_Witness ==
    exit.cause = "eof" /\ last_command_staus = 127

\* C8: dispatching a name outside the command table gives status 127,
\* leaves the two directories alone, sets last_status to 127, appends the
\* raw entry to history and goes on to the next prompt.
C8_UnknownCommand ==
    [][(AboutToDispatch /\ command.name \notin CommandTable) =>
          /\ last_command_staus' = 127
          /\ current_dir' = current_dir
          /\ history_current_dir' = history_current_dir
          /\ hist' = Append(hist, entry)
          /\ stderr' = Append(stderr, NotFoundMsg)
          /\ pc' = "read"
          /\ exit' = Running]_vars

\* an unknown command returned after a directory change
C8_Witness ==
    /\ log # <<>>
    /\ Last(log).outcome = "dispatched"
    /\ Last(log).name = <<"x">>
    /\ Last(log).status = 127
    /\ current_dir # history_current_dir
    /\ Len(hist) = 2
    /\ pc = "read"

\* C9: exit without arguments ends the process with the status of the most
\* recently dispatched command (0 if none), exit N with the code N; blank
\* lines and syntax errors in between do not count.
C9_ExitCode ==
    [][(AboutToDispatch /\ command.name = EXIT) =>
          /\ command.args = <<>> =>
                /\ pc' = "exited"
                /\ exit' = [cause |-> "exit", code |-> LastStatus(log)]
          /\ (command.args # <<>> /\ parse_i32(command.args[1]).ok) =>
                /\ pc' = "exited"
                /\ exit' = [cause |-> "exit",
                            code |-> parse_i32(command.args[1]).value]
          /\ (command.args # <<>> /\ command.args[1] = <<"3">>) =>
                exit' = [cause |-> "exit", code |-> 3]]_vars

\* a bare exit after a failed command and a syntax error
C9_Witness ==
    /\ exit = [cause |-> "exit", code |-> 127]
    /\ Len(log) = 3
    /\ log[2].outcome = "syntax"
    /\ log[3].args = <<>>

\* C10: exit with a first argument that is no 32-bit integer reports an
\* illegal number, returns 2 and does not end the process: last_status is 2
\* and the loop prompts again.
C10_ExitIllegalNumber ==
    [][(/\ AboutToDispatch
        /\ command.name = EXIT
        /\ command.args # <<>>
        /\ \/ command.args[1] = <<"z">>
           \/ ~parse_i32(command.args[1]).ok) =>
          /\ pc' = "read"
          /\ exit' = Running
          /\ last_command_staus' = 2
          /\ stderr' = Append(stderr, IllegalNumberMsg)]_vars

C10_Witness ==
    /\ pc = "read"
    /\ last_command_staus = 2
    /\ log # <<>>
    /\ Last(log).name = EXIT
    /\ Last(log).args = <<<<"z">>>>
    /\ exit = Running

(***************************************************************************)
(* Properties of the continuation reads, checked under SpecCont.           *)
(***************************************************************************)
IsPrefix(s, t) ==
    Len(s) <= Len(t) /\ SubSeq(t, 1, Len(s)) = s

\* the tokens the scan of a buffer has added to the Command before the end
\* of the scan: all of them but the word still open
FinalizedBeforeOpen(buffer) ==
    scan(buffer).command

\* a continuation read has just added a line to an unterminated buffer
ContinuationStep ==
    pc = "cont" /\ open_quote /\ entry' # entry

\* C11: when an unterminated buffer gets one more physical line, the name
\* and the arguments its tokenization had finalized before the open word are
\* at the same positions, unchanged, in the tokenization of the longer
\* buffer.
C11_PrefixStability ==
    [][ContinuationStep =>
         LET fin == FinalizedBeforeOpen(entry)
         IN  /\ fin.name # <<>> => command'.name = fin.name
             /\ IsPrefix(fin.args, command'.args)]_vars

\* C12 as stated: the first line of the example (as read, with or without
\* its line feed) tokenizes to the unterminated name abc, and the buffer
\* with the second line to the complete name abcdef.
C12_ExampleGivesAbcdef ==
    /\ entry \in {AbcLine, AbcPartialLine}
          => command.name = <<"a", "b", "c">> /\ open_quote
    /\ entry \in {AbcLine \o DefLine, AbcLine \o DefPartialLine,
                  AbcPartialLine \o DefLine, AbcPartialLine \o DefPartialLine}
          => /\ command = [name |-> <<"a", "b", "c", "d", "e", "f">>,
                           args |-> <<>>]
             /\ ~open_quote

\* C12, amended: the first line read with its line feed tokenizes to the
\* unterminated name abc followed by a line feed, and the buffer with the
\* second line to the complete name abc, line feed, def, with no quote
\* character; the name is abc, then abcdef, only when the first line was
\* read without its line feed.
C12_ExampleKeepsLineFeed ==
    /\ entry = AbcLine
          => command.name = <<"a", "b", "c", LF>> /\ open_quote
    /\ entry = AbcPartialLine
          => command.name = <<"a", "b", "c">> /\ open_quote
    /\ entry \in {AbcLine \o DefLine, AbcLine \o DefPartialLine}
          => /\ command = [name |-> <<"a", "b", "c", LF, "d", "e", "f">>,
                           args |-> <<>>]
             /\ ~open_quote
    /\ entry \in {AbcPartialLine \o DefLine, AbcPartialLine \o DefPartialLine}
          => /\ command = [name |-> <<"a", "b", "c", "d", "e", "f">>,
                           args |-> <<>>]
             /\ ~open_quote

C12_Witness ==
    /\ entry = AbcLine \o DefLine
    /\ pc = "decide"
    /\ reads = 2
    /\ command.name = <<"a", "b", "c", LF, "d", "e", "f">>

(***************************************************************************)
(* Properties of the turns of custom_split, checked under SpecScan.        *)
(***************************************************************************)
Quotes == {"DoubleQuote", "SingleQuote"}

\* the locals before and after a step
Cur == scanner.s
New == scanner'.s

\* the character a turn of the loop over the characters is given, and the
\* one after it on the line
CurLine == scanner.chs[scanner.i]
CurCh == CurLine[scanner.j]
CurHasNext == scanner.j < Len(CurLine)
CurCh2 == CurLine[scanner.j + 1]

\* a step is a turn of the loop over the characters, the top of the loop
\* over the lines, or the end of the scan
CharStep == scanner.at = "char" /\ scanner' # scanner
LineStep == scanner.at = "line" /\ scanner' # scanner
EndStep == scanner.at = "end" /\ ~done /\ done'

\* C13: inside a quoted region a whitespace character does not end the
\* word, it is the last character of the word after its turn; the start of
\* a line inside a quote with no pending escape puts a line feed on the
\* word; echo "a b" gives the name echo and the one argument a b.
C13_QuotedWhitespaceIsKept ==
    [][/\ CharStep /\ Cur.state \in Quotes /\ is_whitespace(CurCh)
          => /\ New.state = Cur.state
             /\ New.command = Cur.command
             /\ IsPrefix(Cur.word, New.word)
             /\ New.word # Cur.word
             /\ Last(New.word) = CurCh
       /\ LineStep /\ Cur.state \in Quotes /\ ~Cur.open_backslash
          => /\ New.state = Cur.state
             /\ New.command = Cur.command
             /\ New.word = Append(Cur.word, LF)
       /\ EndStep /\ input = EchoQuotedInput
          => result' = [command |-> [name |-> ECHO,
                                     args |-> << <<"a", SP, "b">> >>],
                        open |-> FALSE]]_vars

C13_Witness ==
    /\ done
    /\ input = <<DQ, SP, LF, DQ>>
    /\ result.command.name = <<SP, LF>>

\* C14: in State::Normal a backslash with no escape pending adds nothing to
\* the word, and the character that follows it on the line is pushed on the
\* word, whatever it is, without ending the word or opening a quote;
\* echo a\ b gives the name echo and the one argument a b.
C14_NormalEscapeIsLiteral ==
    [][/\ CharStep /\ Cur.state = "Normal" /\ ~Cur.open_backslash /\ CurCh = BS
          => /\ New.word = Cur.word
             /\ New.command = Cur.command
             /\ New.state = "Normal"
             /\ New.open_backslash
       /\ CharStep /\ Cur.state = "Normal" /\ Cur.open_backslash /\ scanner.j > 1
          => /\ CurLine[scanner.j - 1] = BS
             /\ New.word = Append(Cur.word, CurCh)
             /\ New.command = Cur.command
             /\ New.state = "Normal"
             /\ ~New.open_backslash
       /\ EndStep /\ input = EchoEscapedInput
          => result' = [command |-> [name |-> ECHO,
                                     args |-> << <<"a", SP, "b">> >>],
                        open |-> FALSE]]_vars

C14_Witness ==
    /\ done
    /\ input = EchoEscapedInput
    /\ result.command.args = << <<"a", SP, "b">> >>

\* the characters a backslash escapes inside double quotes
DoubleQuoteEscapable == {DQ, BS, BACKTICK, DOLLAR}

\* C15: in State::DoubleQuote the character after a backslash is pushed on
\* the word alone when it is a double quote, a backslash, a backtick or a
\* dollar, and after a backslash when it is any other character; the region
\* stays open and the escape is no longer pending.
C15_DoubleQuoteEscapes ==
    [][/\ CharStep /\ Cur.state = "DoubleQuote" /\ ~Cur.open_backslash
                   /\ CurCh = BS
          => /\ New.word = Cur.word
             /\ New.state = "DoubleQuote"
             /\ New.open_backslash
       /\ CharStep /\ Cur.state = "DoubleQuote" /\ Cur.open_backslash
          => /\ New.word = IF CurCh \in DoubleQuoteEscapable
                           THEN Cur.word \o <<CurCh>>
                           ELSE Cur.word \o <<BS, CurCh>>
             /\ New.state = "DoubleQuote"
             /\ New.command = Cur.command
             /\ ~New.open_backslash]_vars

C15_Witness ==
    /\ done
    /\ input = DollarInput
    /\ result = [command |-> [name |-> <<DOLLAR, BS, "a">>, args |-> <<>>],
                 open |-> FALSE]

\* the character given to this turn closes the quoted region
ClosesQuote ==
    \/ Cur.state = "DoubleQuote" /\ CurCh = DQ /\ ~Cur.open_backslash
    \/ Cur.state = "SingleQuote" /\ CurCh = SQ

\* C16: a closing quote followed on its line by a character that is not
\* whitespace, or by nothing, goes back to State::Normal with the word and
\* the Command as they were, so what follows goes on the same word;
\* 'it''s' gives the one word its and "ab"cd the one word abcd.
C16_QuoteConcatenation ==
    [][/\ CharStep /\ ClosesQuote
                   /\ (~CurHasNext \/ ~is_whitespace(CurCh2))
          => /\ New.state = "Normal"
             /\ New.word = Cur.word
             /\ New.command = Cur.command
             /\ scanner'.used = 1
       /\ EndStep /\ input = ItsInput
          => result' = [command |-> [name |-> <<"i", "t", "s">>,
                                     args |-> <<>>],
                        open |-> FALSE]
       /\ EndStep /\ input = AbCdInput
          => result' = [command |-> [name |-> <<"a", "b", "c", "d">>,
                                     args |-> <<>>],
                        open |-> FALSE]]_vars

C16_Witness ==
    /\ done
    /\ input = ItsInput
    /\ result.command = [name |-> <<"i", "t", "s">>, args |-> <<>>]

\* C17: in State::SingleQuote no escape is ever pending; a character other
\* than the single quote is pushed on the word as it is, the backslash and
\* the double quote included, and a single quote closes the region.
C17_SingleQuoteIsVerbatim ==
    [][/\ Cur.state = "SingleQuote" => ~Cur.open_backslash
       /\ New.state = "SingleQuote" => ~New.open_backslash
       /\ CharStep /\ Cur.state = "SingleQuote" /\ CurCh # SQ
          => /\ New.word = Append(Cur.word, CurCh)
             /\ New.state = "SingleQuote"
             /\ New.command = Cur.command
       /\ CharStep /\ Cur.state = "SingleQuote" /\ CurCh = SQ
          => New.state = "Normal"]_vars

C17_Witness ==
    /\ done
    /\ input = <<SQ, BS, DQ, SQ>>
    /\ result = [command |-> [name |-> <<BS, DQ>>, args |-> <<>>],
                 open |-> FALSE]

\* the Command before a step and after it; the end of the scan leaves its
\* Command in the result
CommandBefore == Cur.command
CommandAfter == IF EndStep THEN result'.command ELSE New.command

\* C18: at every step of custom_split the Command either stays as it is or
\* takes the current word as one token: as its name when the name is empty
\* (an empty word leaves it empty), at the end of args otherwise; a name
\* that is not empty never changes, and args is empty while the name is.
C18_NameThenArgs ==
    [][/\ CommandBefore.name = <<>> => CommandBefore.args = <<>>
       /\ CommandAfter.name = <<>> => CommandAfter.args = <<>>
       /\ CommandBefore.name # <<>>
          => /\ CommandAfter.name = CommandBefore.name
             /\ \/ CommandAfter.args = CommandBefore.args
                \/ CommandAfter.args = Append(CommandBefore.args, Cur.word)
       /\ CommandBefore.name = <<>>
          => \/ CommandAfter = CommandBefore
             \/ CommandAfter.name = Cur.word]_vars

\* an empty quoted token, then a and b: the name is a
C18_Witness ==
    /\ done
    /\ input = EmptyFirstInput
    /\ result.command = [name |-> <<"a">>, args |-> << <<"a">> >>]

\* the step has put an empty string at the end of args
AppendsEmptyArg ==
    /\ CommandAfter.args # CommandBefore.args
    /\ Last(CommandAfter.args) = <<>>

\* C19: an empty string is put in args only by the turn of a closing quote
\* whose word is empty and whose next character on the line is whitespace,
\* never by a whitespace character in State::Normal nor by the end of the
\* scan; and a closing quote followed by a whitespace character hands its
\* word, empty or not, to the Command at once and takes that character too.
C19_EmptyArgOnlyFromQuotes ==
    [][/\ AppendsEmptyArg
          => /\ CharStep
             /\ ClosesQuote
             /\ Cur.word = <<>>
             /\ CurHasNext
             /\ is_whitespace(CurCh2)
             /\ scanner'.used = 2
       /\ (CharStep /\ Cur.state = "Normal") \/ EndStep => ~AppendsEmptyArg
       /\ CharStep /\ ClosesQuote /\ CurHasNext /\ is_whitespace(CurCh2)
          => /\ New.word = <<>>
             /\ New.state = "Normal"
             /\ scanner'.used = 2
             /\ IF CommandBefore.name = <<>>
                THEN New.command = [CommandBefore EXCEPT !.name = Cur.word]
                ELSE New.command =
                         [CommandBefore EXCEPT !.args = Append(@, Cur.word)]]_vars

C19_Witness ==
    /\ done
    /\ input = EmptyArgInput
    /\ result.command = [name |-> <<"a">>, args |-> << <<>>, <<"b">> >>]

(***************************************************************************)
(* Properties of the interactive loop, checked under Spec (continued).     *)
(***************************************************************************)
\* the last tokenization of the turn gave an empty name
BlankInput ==
    pc = "decide" /\ command.name = <<>>

\* C20: when the tokenized command has an empty name the loop goes back to
\* the prompt: nothing is dispatched or printed, and the history, the last
\* status, the current directory, the previous-directory marker and the
\* working directory of the process are as they were.
C20_BlankInputChangesNothing ==
    [][BlankInput =>
         /\ pc' = "read"
         /\ hist' = hist
         /\ last_command_staus' = last_command_staus
         /\ current_dir' = current_dir
         /\ history_current_dir' = history_current_dir
         /\ cwd' = cwd
         /\ stderr' = stderr
         /\ exit' = exit
         /\ Len(log') = Len(log) + 1
         /\ Last(log').outcome = "blank"]_vars

\* a blank logical command after one that left a status and a history entry
C20_Witness ==
    /\ pc = "read"
    /\ log # <<>>
    /\ Last(log).outcome = "blank"
    /\ hist # <<>>
    /\ last_command_staus # 0

(***************************************************************************)
(* Properties of the session, checked under SpecSession.                   *)
(***************************************************************************)
\* C21: the current directory or the previous-directory marker changes
\* only in the step that dispatches cd; the dispatch of any other name, a
\* blank line, a syntax error and an interrupt leave both as they were; the
\* home directory never changes.
C21_OnlyCdMovesTheSession ==
    [][/\ home' = home
       /\ (current_dir' # current_dir
             \/ history_current_dir' # history_current_dir)
          => AboutToDispatch /\ command.name = CD]_vars

\* a cd has moved the session, then another collaborator was dispatched
C21_Witness ==
    /\ Len(log) = 2
    /\ log[1].name = CD
    /\ log[2].name = RM
    /\ log[2].outcome = "dispatched"
    /\ current_dir # history_current_dir

(***************************************************************************)
(* Properties of cd and of the ways out of the loop, checked under Spec.   *)
(***************************************************************************)
\* the step dispatches cd and cd returns
CdStep ==
    AboutToDispatch /\ command.name = CD /\ pc' = "read"

\* C22: after a cd that returns 0 the previous-directory marker is the
\* current directory of before and the current directory is the working
\* directory of the process; and the marker changes in no other step, so it
\* is the location that was current before the last cd that returned 0, or
\* the startup directory.
C22_MarkerIsThePriorLocation ==
    [][/\ CdStep /\ last_command_staus' = 0
          => /\ history_current_dir' = current_dir
             /\ current_dir' = cwd'
       /\ history_current_dir' # history_current_dir
          => CdStep /\ last_command_staus' = 0]_vars

\* C23: cd returns 0 or 1; when it returns 1 the current directory and the
\* previous-directory marker are as they were, and when it returns 0 the
\* current directory is the working directory the process now has.
C23_CdFailureChangesNothing ==
    [][CdStep =>
         /\ last_command_staus' \in {0, 1}
         /\ last_command_staus' = 1
            => /\ current_dir' = current_dir
               /\ history_current_dir' = history_current_dir
         /\ last_command_staus' = 0 => current_dir' = cwd']_vars

\* C24: the process ends only by the end of the stream on the primary read
\* or by the exit pseudo-command.
C24_OnlyEofOrExitEndsTheProcess ==
    pc = "exited" => exit.cause \in {"eof", "exit"}

(***************************************************************************)
(* Properties of the session, checked under SpecSession (continued).       *)
(***************************************************************************)
\* C25 as stated: no collaborator reads a line of the input stream.
C25_NoCollaboratorReadsInput ==
    effects.stdin_lines = 0

\* C25, amended: the lines of the input stream that the loop does not read
\* are read by cat dispatched without operand, and by nothing else.
C25_OnlyBareCatReadsInput ==
    [][effects'.stdin_lines # effects.stdin_lines
         => /\ AboutToDispatch
            /\ command.name = CAT
            /\ command.args = <<>>]_vars

C25_Witness ==
    /\ log # <<>>
    /\ Last(log).name = CAT
    /\ Last(log).args = <<>>
    /\ effects.stdin_lines > 0
    /\ pc = "read"

IsString(s) ==
    /\ DOMAIN s = 1..Len(s)
    /\ \A k \in 1..Len(s) : \E j \in 1..Len(input) : s[k] = input[j]

IsCommand(c) ==
    /\ DOMAIN c = {"name", "args"}
    /\ IsString(c.name)
    /\ \A k \in 1..Len(c.args) : IsString(c.args[k])

\* C27: on every input the scan comes to its end and returns a Command and
\* a boolean; what it returns is what custom_split, a function of the
\* input string alone, gives for that input.
C27_CustomSplitIsTotal ==
    /\ <>done
    /\ [](done => /\ IsCommand(result.command)
                   /\ result.open \in BOOLEAN
                   /\ result = custom_split(input))

\* the call has returned on an input of line feeds alone
C27_Witness ==
    /\ done
    /\ input = <<LF, LF>>
    /\ result = [command |-> EmptyCommand, open |-> FALSE]

(***************************************************************************)
(* Properties of the collaborators and of the history, checked under       *)
(* SpecSession.                                                            *)
(***************************************************************************)
\* the step is a call of exec_command
DispatchStep ==
    AboutToDispatch /\ Len(log') = Len(log) + 1

\* C28: when an operation of rm, mkdir, cp or mv on one of its operands
\* fails, the status the collaborator returns, and so the last status, is
\* not 0.
C28_FailureGivesNonZeroStatus ==
    [][/\ DispatchStep
       /\ command.name \in {RM, MKDIR, CP, MV}
       /\ effects'.call.failed
       => last_command_staus' # 0]_vars

\* the entries of the logical commands recorded so far
RecordedEntries ==
    EntriesOf(SelectSeq(log, IsDispatched))

\* C29: the history only grows, by one entry put at its end at a time; when
\* a command is dispatched the history it is given, and that the history
\* collaborator shows, holds the entries recorded before it, without the
\* entry being executed, which is put at the end once the command returned.
C29_HistoryAppendedAfterDispatch ==
    [][/\ IsPrefix(hist, hist')
       /\ Len(hist') <= Len(hist) + 1
       /\ DispatchStep
          => /\ hist = RecordedEntries
             /\ Len(hist) = Len(SelectSeq(log, IsDispatched))
             /\ command.name = HISTORY => effects'.call.shown = hist
             /\ pc' = "read" => hist' = Append(hist, entry)]_vars

\* the history collaborator, dispatched second, was shown the one earlier
\* entry and is now recorded itself
C29_Witness ==
    /\ Len(log) = 2
    /\ log[2].name = HISTORY
    /\ effects.call.shown = <<log[1].entry>>
    /\ hist = <<log[1].entry, log[2].entry>>

\* an operand of rm made only of the components . and .. and of slashes
IsDotPath(arg) ==
    /\ arg # <<>>
    /\ \A k \in 1..Len(arg) : arg[k] \in {".", "/"}
    /\ \A k \in 1..Len(arg) - 2 :
          ~(arg[k] = "." /\ arg[k + 1] = "." /\ arg[k + 2] = ".")

\* C30: rm refuses every operand made only of the components . and .. and
\* of slashes, with or without -r, and removes neither the current
\* directory nor one of its ancestors.
C30_RmRefusesDotPaths ==
    [][DispatchStep /\ command.name = RM
       => /\ \A arg \in rm_operands(command.args) :
               IsDotPath(arg) => arg \in effects'.call.skipped
          /\ \A tmp \in effects'.call.removed : tmp.down # <<>>]_vars

(***************************************************************************)
(* The session's directory and the working directory of the process,       *)
(* checked under Spec.                                                     *)
(***************************************************************************)
\* C31: after every command, whether it succeeded or failed, the session's
\* current directory is the working directory of the process, so the
\* collaborators that resolve a relative path against the one (ls, cat, rm,
\* mkdir, pwd) and those that resolve it against the other (cp, mv) name
\* the same directory.
C31_SessionDirIsWorkingDir ==
    (pc = "read" /\ log # <<>>) => current_dir = cwd

(***************************************************************************)
(* The line breaks of the buffers the loop builds, checked under SpecCont. *)
(***************************************************************************)
\* the scanner of custom_split, run over the whole buffer, when it has gone
\* through the segments up to the one numbered last
RECURSIVE scan_upto(_, _, _, _)
scan_upto(s, chs, i, last) ==
    IF i > last THEN s
    ELSE scan_upto(scan_line(line_start(s, i, Len(chs)), chs[i], 1), chs, i + 1, last)

ScanAtLineBreak(buffer, i) ==
    scan_upto(ScanInit, split_lines(buffer), 1, i)

\* the line breaks of the buffer with something after them, each named by
\* the number of the segment it ends
InteriorBreaks(buffer) ==
    LET chs == split_lines(buffer)
        n == Len(chs)
    IN  {i \in 1..(n - 1) : i < n - 1 \/ chs[n] # <<>>}

\* a tokenizer that differs from custom_split in one thing: a line break
\* met in Normal state with no pending backslash ends the word, as a space
\* would
line_start_separating(s, i, n) ==
    LET sep == i > 1 /\ s.state = "Normal" /\ ~s.open_backslash
        s1 == IF sep
              THEN [s EXCEPT !.command = add_string(@, s.word), !.word = <<>>]
              ELSE s
    IN  line_start(s1, i, n)

RECURSIVE scan_lines_separating(_, _, _)
scan_lines_separating(s, chs, i) ==
    IF i > Len(chs) THEN s
    ELSE scan_lines_separating(scan_line(line_start_separating(s, i, Len(chs)), chs[i], 1), chs, i + 1)

custom_split_separating(buffer) ==
    scan_result(scan_lines_separating(ScanInit, split_lines(buffer), 1))

\* C32: in the loop, a buffer that waits for one more line tokenizes as
\* unterminated, and so does every prefix of the buffer that ends at one
\* of its earlier line breaks; so in a buffer that reaches dispatch every
\* line break with something after it is met inside a quote or with a
\* backslash pending, and the dispatched command is the one a tokenizer
\* that separates words at the other line breaks gives: no two words were
\* merged.
C32_LineBreaksNeverMergeWords ==
    /\ pc = "cont" => custom_split(entry).open
    /\ \A k \in 1..(Len(entry) - 1) :
          entry[k] = LF => custom_split(SubSeq(entry, 1, k)).open
    /\ AboutToDispatch =>
          /\ \A i \in InteriorBreaks(entry) :
                LET s == ScanAtLineBreak(entry, i)
                IN  s.state # "Normal" \/ s.open_backslash
          /\ command = custom_split_separating(entry).command

\* a buffer of three lines reaches dispatch: its first line break follows a
\* pending backslash in Normal state, its second is inside a double quote
C32_Witness ==
    /\ AboutToDispatch
    /\ InteriorBreaks(entry) = {1, 2}
    /\ ScanAtLineBreak(entry, 1).state = "Normal"
    /\ ScanAtLineBreak(entry, 1).open_backslash
    /\ ScanAtLineBreak(entry, 2).state = "DoubleQuote"

(***************************************************************************)
(* cd - as a swap and as a round trip, checked under SpecCd.               *)
(***************************************************************************)
\* the arguments of cd name the previous directory
IsDash(args) ==
    args # <<>> /\ args[1] = <<"-">>

\* the step is a call of cd - that returns 0
CdDashStep ==
    /\ DispatchStep
    /\ command.name = CD
    /\ IsDash(command.args)
    /\ pc' = "read"
    /\ last_command_staus' = 0

\* the last logical command that ended was a cd - that returned 0
LastWasCdDash ==
    /\ log # <<>>
    /\ Last(log).outcome = "dispatched"
    /\ Last(log).name = CD
    /\ IsDash(Last(log).args)
    /\ Last(log).status = 0

\* cd - called twice from the state the session is in: when both calls
\* return 0 the first swapped the directories and the second put them back
CdDashTwice ==
    \A e1 \in Envs(CD), e2 \in Envs(CD) :
       LET r1 == exec_command(CD, <<<<"-">>>>, current_dir, history_current_dir, hist, home, last_command_staus, cwd, e1)
           r2 == exec_command(CD, <<<<"-">>>>, r1.current_dir, r1.history_current_dir, hist, home, r1.code, r1.cwd, e2)
       IN  r1.code = 0 /\ r2.code = 0
           => /\ r1.current_dir = history_current_dir
              /\ r1.history_current_dir = current_dir
              /\ r2.current_dir = current_dir
              /\ r2.history_current_dir = history_current_dir

\* C33: a cd - that returns 0 swaps the current directory and the
\* previous-directory marker; when the command before it was a cd - that
\* returned 0 as well, both have again the values they had before the first
\* of the two; and two cd - called from any state the session is in, both
\* returning 0, are such a round trip.
C33_CdDashRoundTrip ==
    /\ [][CdDashStep
          => /\ current_dir' = history_current_dir
             /\ history_current_dir' = current_dir
             /\ LastWasCdDash
                => /\ current_dir' = effects.before.current_dir
                   /\ history_current_dir' = effects.before.history_current_dir]_vars
    /\ [](pc = "read" => CdDashTwice)

\* the third command of the session is the second of two cd - that returned
\* 0, from a current directory that was not the marker: both are back
C33_Witness ==
    /\ Len(log) = 3
    /\ \A i \in {2, 3} :
          /\ log[i].outcome = "dispatched"
          /\ log[i].name = CD
          /\ IsDash(log[i].args)
          /\ log[i].status = 0
    /\ current_dir # history_current_dir
    /\ effects.before.current_dir = history_current_dir
    /\ effects.before.history_current_dir = current_dir

(***************************************************************************)
(* Termination on a finite input stream, checked under SpecEof.            *)
(***************************************************************************)
\* every line of the stream has been read: reads return zero bytes
StreamEnded ==
    reads = MaxReads

\* the step leaves the continuation loop on a read of zero bytes
ZeroByteStop ==
    pc' = "decide" /\ reads' = reads /\ entry' = entry /\ open_quote' = open_quote

\* the step leaves the continuation loop on a tokenization that terminated
TerminatedStop ==
    pc' = "decide" /\ reads' = reads + 1 /\ ~open_quote'

\* the step discards the buffer: nothing is dispatched or recorded
DiscardStep ==
    /\ pc' = "read"
    /\ Len(log') = Len(log) + 1
    /\ Last(log').outcome \in {"blank", "syntax"}
    /\ UNCHANGED <<hist, last_command_staus, current_dir,
                   history_current_dir, cwd, effects>>

\* C34: on a finite input stream the process ends; every continuation loop
\* ends, and it ends at the first read of zero bytes or at the first
\* tokenization that terminated; once the stream has ended, a process
\* inside a continuation loop ends at the next primary read, by the end of
\* the stream, and the unterminated command is discarded, not dispatched.
C34_EndOfStreamEndsTheProcess ==
    /\ <>(pc = "exited")
    /\ (pc = "cont") ~> (pc # "cont")
    /\ [][pc = "cont" /\ pc' # "cont" => ZeroByteStop \/ TerminatedStop]_vars
    /\ [][pc = "decide" /\ open_quote => DiscardStep]_vars
    /\ (pc = "cont" /\ StreamEnded) ~> (pc = "exited" /\ exit.cause = "eof")

\* the stream ended inside a continuation loop: the unterminated command of
\* two lines was reported and discarded, and the process ended at the
\* primary read that followed
C34_Witness ==
    /\ pc = "exited"
    /\ exit.cause = "eof"
    /\ StreamEnded
    /\ log # <<>>
    /\ Last(log).outcome = "syntax"
    /\ Last(log).entry = <<DQ, LF, BS, LF>>
    /\ \A i \in 1..Len(log) : log[i].outcome # "dispatched"

====
